---- MODULE Spec2Model ----
(***************************************************************************)
(* Model of ninja_ide/gui/editor/editor.py: the extra-selection manager,   *)
(* the find / occurrence engine, smart backspace, the Home key and the     *)
(* comment toggle of NEditor.                                              *)
(*                                                                         *)
(* Python lists are objects: ExtraSelectionManager stores the list it is   *)
(* handed and clears it in place, so the model keeps a heap of list        *)
(* objects and the managers hold references into it.                       *)
(***************************************************************************)
EXTENDS Integers, Sequences, FiniteSets, TLC

VARIABLES
    heap,        \* list objects: reference -> sequence of extra selections
    managers,    \* editor -> ExtraSelectionManager.__selections (OrderedDict: sequence of [kind, ref])
    rendered,    \* editor -> the list last given to setExtraSelections
    text,        \* the document's plain text, a sequence of characters
    position,    \* textCursor().position(), an offset into text
    anchor,      \* textCursor().anchor(); a selection is active when it differs from position
    card,        \* settings.SYNTAX[language]["comment"][0], the line-comment marker
    wordTimer,   \* _highlight_word_timer.isActive(): the debounce timer is running
    runTimers,   \* the QTimer.singleShot timers of show_run_cursor that have not fired
    lastOp       \* the operation that ran last and what it returned

selVars == <<heap, managers, rendered>>
docVars == <<text, position, anchor, card>>
timerVars == <<wordTimer, runTimers>>
vars == <<heap, managers, rendered, text, position, anchor, card, wordTimer, runTimers,
          lastOp>>

----------------------------------------------------------------------------
(* Bounds *)

NumSel == 2          \* extra selections the callers of the manager choose from
MaxTextLen == 4      \* longest text searched
MaxQueryLen == 2     \* longest search expression
MaxDocLen == 2       \* longest document with find and occurrence overlays
MaxFindLen == 1      \* longest expression the find widget asks to highlight
MaxIndent == 6       \* widest leading whitespace of a line the keys are pressed on
MaxLines == 3        \* most lines of a document the comment toggle is used on
MaxToggles == 2      \* most uses of the comment toggle in a row
MaxWords == 3        \* most words of a document whose occurrences are highlighted
MaxRuns == 2         \* most calls of show_run_cursor

----------------------------------------------------------------------------
(* Generic helpers *)

Range(s) == {s[i] : i \in DOMAIN s}

SeqsUpTo(S, n) == UNION {[1..k -> S] : k \in 0..n}

Min(a, b) == IF a <= b THEN a ELSE b

----------------------------------------------------------------------------
(* Extra selections and the manager's dictionary *)

\* The two views of one file: NEditor.link(clone) is called on the original.
Editors == {"original", "clone"}

\* Categories used by NEditor for its overlays.
Kinds == {"find", "occurrences"}

\* ExtraSelection objects: a span and the priority update() sorts by.
SelOrder(i) == IF i = 1 THEN 1 ELSE 0

MkSelection(s, e, o) == [start_pos |-> s, end_pos |-> e, order |-> o]

Selections == {MkSelection(i, i + 1, SelOrder(i)) : i \in 1..NumSel}

\* What a caller hands to add(): a list, or one ExtraSelection object.
AddArgs ==
    {[isList |-> TRUE, items |-> <<>>]}
    \cup {[isList |-> TRUE, items |-> <<s>>] : s \in Selections}
    \cup {[isList |-> FALSE, items |-> <<s>>] : s \in Selections}

EmptyManager == <<>>

HasKind(m, kind) == \E i \in DOMAIN m : m[i].kind = kind

KindIndex(m, kind) == CHOOSE i \in DOMAIN m : m[i].kind = kind

RefOf(m, kind) == m[KindIndex(m, kind)].ref

\* OrderedDict.__setitem__: a present key keeps its place, a new key goes last.
DictSet(m, kind, ref) ==
    IF HasKind(m, kind)
    THEN [m EXCEPT ![KindIndex(m, kind)].ref = ref]
    ELSE Append(m, [kind |-> kind, ref |-> ref])

\* ExtraSelectionManager.get: the category's list, or [] when absent.
Get(h, m, kind) == IF HasKind(m, kind) THEN h[RefOf(m, kind)] ELSE <<>>

\* References run from 1; 0 stands for "no list" in an argument of add().
Refs == 1..(Cardinality(Editors) * Cardinality(Kinds) + 1)

NoSel == MkSelection(0, 0, 0)

\* A new list object gets the lowest reference not in use.
FreshRef(h) == CHOOSE r \in Refs : r \notin DOMAIN h /\ \A q \in 1..(r - 1) : q \in DOMAIN h

\* The references the managers hold, original's dictionary first.
EditorOrder == <<"original", "clone">>

HeldRefs(ms) ==
    [i \in 1..(Len(ms["original"]) + Len(ms["clone"])) |->
        IF i <= Len(ms["original"]) THEN ms["original"][i].ref
        ELSE ms["clone"][i - Len(ms["original"])].ref]

\* A list no manager refers to any more is garbage, and the address of a list
\* object is not observable: the live lists are renumbered 1..n in the order in
\* which the managers first mention them.
Compact(h, ms) ==
    LET held == HeldRefs(ms)
        First(r) == CHOOSE i \in DOMAIN held :
                        held[i] = r /\ \A j \in 1..(i - 1) : held[j] # r
        Rank(r) == Cardinality({held[j] : j \in 1..First(r)})
        live == Range(held)
    IN  [heap |-> [n \in 1..Cardinality(live) |->
                      h[CHOOSE r \in live : Rank(r) = n]],
         managers |-> [e \in Editors |->
                      [i \in DOMAIN ms[e] |->
                          [kind |-> ms[e][i].kind, ref |-> Rank(ms[e][i].ref)]]]]

\* selections.extend(selection) over items(), in the dictionary's order.
RECURSIVE FlattenFrom(_, _, _)
FlattenFrom(h, m, i) ==
    IF i > Len(m) THEN <<>> ELSE h[m[i].ref] \o FlattenFrom(h, m, i + 1)

Flatten(h, m) == FlattenFrom(h, m, 1)

\* sorted(..., key=lambda sel: sel.order): stable, ascending.
RECURSIVE InsertByOrder(_, _)
InsertByOrder(sorted, x) ==
    IF sorted = <<>> THEN <<x>>
    ELSE IF sorted[Len(sorted)].order <= x.order THEN Append(sorted, x)
    ELSE Append(InsertByOrder(SubSeq(sorted, 1, Len(sorted) - 1), x), sorted[Len(sorted)])

RECURSIVE SortByOrderFrom(_, _, _)
SortByOrderFrom(s, i, acc) ==
    IF i > Len(s) THEN acc ELSE SortByOrderFrom(s, i + 1, InsertByOrder(acc, s[i]))

SortByOrder(s) == SortByOrderFrom(s, 1, <<>>)

\* ExtraSelectionManager.update: what it passes to setExtraSelections.
Update(h, m) == SortByOrder(Flatten(h, m))

\* ManagerAdd with the bug of extending the category's list instead of rebinding
\* the category to the list handed in.
ManagerAddExtends(h, m, kind, arg) ==
    LET items == IF arg.isList THEN h[arg.ref] ELSE <<arg.sel>>
        r == IF HasKind(m, kind) THEN RefOf(m, kind)
             ELSE IF arg.isList THEN arg.ref ELSE FreshRef(h)
        h1 == IF HasKind(m, kind) THEN [h EXCEPT ![r] = h[r] \o items]
              ELSE IF arg.isList THEN h ELSE h @@ (r :> items)
        m1 == DictSet(m, kind, r)
    IN  [heap |-> h1, manager |-> m1, rendered |-> Update(h1, m1)]

\* ExtraSelectionManager.add on heap h and dictionary m. arg is what the caller
\* passed: a reference to a list object, or one selection that is not a list.
ManagerAdd(h, m, kind, arg) ==
    LET wrapped == ~arg.isList
        r == IF wrapped THEN FreshRef(h) ELSE arg.ref
        h1 == IF wrapped THEN h @@ (r :> <<arg.sel>>) ELSE h
        m1 == DictSet(m, kind, r)
    IN  [heap |-> h1, manager |-> m1, rendered |-> Update(h1, m1)]

\* ExtraSelectionManager.remove: clears the list object in place, then update();
\* an absent kind is left alone and nothing is pushed.
ManagerRemove(h, m, kind, rend) ==
    IF HasKind(m, kind)
    THEN LET h1 == [h EXCEPT ![RefOf(m, kind)] = <<>>]
         IN  [heap |-> h1, rendered |-> Update(h1, m)]
    ELSE [heap |-> h, rendered |-> rend]

\* ExtraSelectionManager.remove_all: remove(kind) for every kind of the dictionary.
RECURSIVE RemoveAllFrom(_, _, _, _)
RemoveAllFrom(h, m, i, rend) ==
    IF i > Len(m) THEN [heap |-> h, rendered |-> rend]
    ELSE LET r == ManagerRemove(h, m, m[i].kind, rend)
         IN  RemoveAllFrom(r.heap, m, i + 1, r.rendered)

ManagerRemoveAll(h, m, rend) == RemoveAllFrom(h, m, 1, rend)

\* NEditor.link: clone._extra_selections.add(kind, selections) for every item of
\* the original, handing over the original's own list objects.
RECURSIVE LinkFrom(_, _, _, _, _)
LinkFrom(h, mo, mc, i, rend) ==
    IF i > Len(mo) THEN [heap |-> h, manager |-> mc, rendered |-> rend]
    ELSE LET r == ManagerAdd(h, mc, mo[i].kind,
                             [isList |-> TRUE, ref |-> mo[i].ref, sel |-> NoSel])
         IN  LinkFrom(r.heap, mo, r.manager, i + 1, r.rendered)

EditorLink(h, mo, mc, rend) == LinkFrom(h, mo, mc, 1, rend)

----------------------------------------------------------------------------
(* The find engine: NEditor._get_find_index_results *)

\* Characters of the texts and expressions searched: a lower-case and an
\* upper-case letter and a regular-expression metacharacter that is no word
\* character.
FindChars == {"a", "A", "."}

WordChars == {"a", "A", "b", "_"}

\* str.lower, character by character.
LowerChar(c) == IF c = "A" THEN "a" ELSE c

Lower(s) == [i \in DOMAIN s |-> LowerChar(s[i])]

\* Characters re.escape puts a backslash in front of.
RegexSpecial == {".", "\\", " ", "#", "(", ")", "[", "]", "*", "+", "?", "|", "^", "$"}

\* re.escape, with the bug of leaving the expression as it is.
ReEscapeNothing(s) == s

\* re.escape: a backslash before every special character.
RECURSIVE ReEscape(_)
ReEscape(s) ==
    IF s = <<>> THEN <<>>
    ELSE (IF Head(s) \in RegexSpecial THEN <<"\\", Head(s)>> ELSE <<Head(s)>>)
         \o ReEscape(Tail(s))

\* re.compile on the pattern text: a sequence of tokens, or an error. The
\* patterns built here hold literals, escaped characters, "." and \b only.
\*   \b      word boundary            \<other>   that character, literally
\*   .       any character but \n     c          the character c
\* A backslash with nothing after it is a compile error.
RECURSIVE ReCompileFrom(_, _, _)
ReCompileFrom(pat, i, acc) ==
    IF i > Len(pat) THEN [ok |-> TRUE, tokens |-> acc]
    ELSE IF pat[i] = "\\"
    THEN IF i = Len(pat) THEN [ok |-> FALSE, tokens |-> <<>>]
         ELSE IF pat[i + 1] = "b"
         THEN ReCompileFrom(pat, i + 2, Append(acc, [type |-> "boundary", ch |-> ""]))
         ELSE ReCompileFrom(pat, i + 2, Append(acc, [type |-> "literal", ch |-> pat[i + 1]]))
    ELSE IF pat[i] = "."
    THEN ReCompileFrom(pat, i + 1, Append(acc, [type |-> "any", ch |-> ""]))
    ELSE ReCompileFrom(pat, i + 1, Append(acc, [type |-> "literal", ch |-> pat[i]]))

ReCompile(pat) == ReCompileFrom(pat, 1, <<>>)

\* \b at offset i of s: exactly one of the characters around i is a word character.
IsWordAt(s, i) == i >= 1 /\ i <= Len(s) /\ s[i] \in WordChars

WordBoundary(s, i) == IsWordAt(s, i) # IsWordAt(s, i + 1)

\* The end offset of the match of tokens[k..] that starts at offset i of s, or -1.
RECURSIVE MatchAt(_, _, _, _)
MatchAt(tokens, k, s, i) ==
    IF k > Len(tokens) THEN i
    ELSE IF tokens[k].type = "boundary"
    THEN IF WordBoundary(s, i) THEN MatchAt(tokens, k + 1, s, i) ELSE -1
    ELSE IF i >= Len(s) THEN -1
    ELSE IF tokens[k].type = "any"
    THEN IF s[i + 1] # "\n" THEN MatchAt(tokens, k + 1, s, i + 1) ELSE -1
    ELSE IF s[i + 1] = tokens[k].ch THEN MatchAt(tokens, k + 1, s, i + 1) ELSE -1

\* reobj.finditer(string): the spans <<start, end>> of the matches, scanning from
\* the left; the scan goes on at the end of a match, one further after an empty one.
RECURSIVE FindIterFrom(_, _, _, _)
FindIterFrom(tokens, s, i, acc) ==
    IF i > Len(s) THEN acc
    ELSE LET e == MatchAt(tokens, 1, s, i)
         IN  IF e < 0 THEN FindIterFrom(tokens, s, i + 1, acc)
             ELSE FindIterFrom(tokens, s, IF e > i THEN e ELSE i + 1,
                               Append(acc, <<i, e>>))

FindIter(pat, s) == FindIterFrom(ReCompile(pat).tokens, s, 0, <<>>)

\* find_all_iter: a pattern that does not compile yields nothing.
FindAllIter(s, pat) == IF ReCompile(pat).ok THEN FindIter(pat, s) ELSE <<>>

\* The pattern _get_find_index_results searches for.
FindPattern(expr, cs, wo) ==
    LET e0 == IF cs THEN expr ELSE Lower(expr)
        e1 == ReEscape(e0)
    IN  IF wo THEN <<"\\", "b">> \o ReEscape(e1) \o <<"\\", "b">> ELSE e1

\* _get_find_index_results(expr, cs, wo) on text txt with the cursor at pos.
GetFindIndexResults(txt, pos, expr, cs, wo) ==
    LET t == IF cs THEN txt ELSE Lower(txt)
        pat == FindPattern(expr, cs, wo)
        matches == FindAllIter(t, pat)
    IN  [index |-> IF Len(matches) > 0 THEN Len(FindIter(pat, SubSeq(t, 1, pos))) ELSE 0,
         matches |-> matches]

----------------------------------------------------------------------------
(* The manager driven by its callers *)

\* lastOp: the handler that ran last, on which editor and category, the list
\* an add() was given, and whether that add() found the category holding
\* selections.
Op(name, e, kind) ==
    [op |-> name, ed |-> e, kind |-> kind, items |-> <<>>, replaced |-> FALSE]

NoOp == Op("none", "original", "*")

InitSel ==
    /\ heap = <<>>
    /\ managers = [e \in Editors |-> EmptyManager]
    /\ rendered = [e \in Editors |-> <<>>]

\* An empty document with the cursor at its start.
InitEmptyDoc ==
    /\ text = <<>>
    /\ position = 0
    /\ anchor = 0
    /\ card = <<"#">>

\* The single-shot debounce timer is created stopped, and no timer of
\* show_run_cursor is pending: pending lists them in the order they were
\* started, each named by the number of the call that started it, and started
\* counts the calls.
InitTimers ==
    /\ wordTimer = FALSE
    /\ runTimers = [pending |-> <<>>, started |-> 0]

Init ==
    /\ InitSel
    /\ InitEmptyDoc
    /\ InitTimers
    /\ lastOp = NoOp

\* A caller builds a fresh list (or one selection) and calls add(kind, it).
Add(e, kind, a) ==
    LET r0 == FreshRef(heap)
        h0 == IF a.isList THEN heap @@ (r0 :> a.items) ELSE heap
        arg == IF a.isList THEN [isList |-> TRUE, ref |-> r0, sel |-> NoSel]
               ELSE [isList |-> FALSE, ref |-> 0, sel |-> a.items[1]]
    IN  \E res \in {ManagerAdd(h0, managers[e], kind, arg)} :
        \E new \in {Compact(res.heap, [managers EXCEPT ![e] = res.manager])} :
            /\ managers' = new.managers
            /\ heap' = new.heap
            /\ rendered' = [rendered EXCEPT ![e] = res.rendered]
            /\ lastOp' = [op |-> "add", ed |-> e, kind |-> kind, items |-> a.items,
                          replaced |-> Get(heap, managers[e], kind) # <<>>]
            /\ UNCHANGED <<docVars, timerVars>>

Remove(e, kind) ==
    \E res \in {ManagerRemove(heap, managers[e], kind, rendered[e])} :
        /\ heap' = res.heap
        /\ rendered' = [rendered EXCEPT ![e] = res.rendered]
        /\ lastOp' = Op("remove", e, kind)
        /\ UNCHANGED <<managers, docVars, timerVars>>

RemoveAll(e) ==
    \E res \in {ManagerRemoveAll(heap, managers[e], rendered[e])} :
        /\ heap' = res.heap
        /\ rendered' = [rendered EXCEPT ![e] = res.rendered]
        /\ lastOp' = Op("remove_all", e, "*")
        /\ UNCHANGED <<managers, docVars, timerVars>>

\* original.link(clone). The cursor copy and the scrollbar link of the handler
\* touch no extra selection.
Link(o, c) ==
    /\ o # c
    /\ \E res \in {EditorLink(heap, managers[o], managers[c], rendered[c])} :
       \E new \in {Compact(res.heap, [managers EXCEPT ![c] = res.manager])} :
            /\ managers' = new.managers
            /\ heap' = new.heap
            /\ rendered' = [rendered EXCEPT ![c] = res.rendered]
            /\ lastOp' = Op("link", o, "*")
            /\ UNCHANGED <<docVars, timerVars>>

Next ==
    \/ \E e \in Editors, k \in Kinds, a \in AddArgs : Add(e, k, a)
    \/ \E e \in Editors, k \in Kinds : Remove(e, k)
    \/ \E e \in Editors : RemoveAll(e)
    \/ Link("original", "clone")

Spec == Init /\ [][Next]_vars

----------------------------------------------------------------------------
(* The find engine on every text, expression, flag pair and cursor offset *)

Texts == SeqsUpTo(FindChars, MaxTextLen)

Queries == SeqsUpTo(FindChars, MaxQueryLen)

InitFind ==
    /\ InitSel
    /\ text \in Texts
    /\ position \in 0..Len(text)
    /\ anchor = position
    /\ card = <<"#">>
    /\ InitTimers
    /\ lastOp = NoOp

FindResult(expr, cs, wo) ==
    LET res == GetFindIndexResults(text, position, expr, cs, wo)
    IN  [op |-> "find", expr |-> expr, cs |-> cs, wo |-> wo,
         index |-> res.index, matches |-> res.matches]

\* A search. It reads the text and the cursor and writes neither, so a search
\* after another one returns what it returns on the untouched document: new
\* expressions are searched from the initial state, and FindAgain repeats the
\* last search.
Find(expr, cs, wo) ==
    /\ lastOp.op = "none"
    /\ lastOp' = FindResult(expr, cs, wo)
    /\ UNCHANGED <<selVars, docVars, timerVars>>

FindAgain ==
    /\ lastOp.op = "find"
    /\ lastOp' = FindResult(lastOp.expr, lastOp.cs, lastOp.wo)
    /\ UNCHANGED <<selVars, docVars, timerVars>>

NextFind ==
    \/ \E expr \in Queries, cs \in BOOLEAN, wo \in BOOLEAN : Find(expr, cs, wo)
    \/ FindAgain

SpecFind == InitFind /\ [][NextFind]_vars

----------------------------------------------------------------------------
(* Find and occurrence overlays of one editor *)

\* The cap of results[:500] in highlight_selected_word. The model's documents
\* are far shorter than 500 occurrences, so the cap is scaled down to a value
\* below the number of words of the longest document (MaxWords).
MaxOccurrences == 2

Take(s, n) == SubSeq(s, 1, Min(Len(s), n))

\* The ExtraSelection objects built from the spans of a search.
SelectionsOf(spans) == [i \in DOMAIN spans |-> MkSelection(spans[i][1], spans[i][2], 0)]

\* word_under_cursor().selectedText(): the run of word characters that holds or
\* touches the cursor, empty when no word character is next to the cursor.
RECURSIVE WordStart(_, _)
WordStart(txt, i) == IF IsWordAt(txt, i) THEN WordStart(txt, i - 1) ELSE i

RECURSIVE WordEnd(_, _)
WordEnd(txt, i) == IF IsWordAt(txt, i + 1) THEN WordEnd(txt, i + 1) ELSE i

WordUnderCursor(txt, pos) == SubSeq(txt, WordStart(txt, pos) + 1, WordEnd(txt, pos))

\* add(kind, items) with a list the caller has just built.
AddNewList(h, m, kind, items) ==
    ManagerAdd(h @@ (FreshRef(h) :> items), m, kind,
               [isList |-> TRUE, ref |-> FreshRef(h), sel |-> NoSel])

\* highlight_selected_word with the bug of leaving out the slice: every
\* result becomes a selection.
HighlightSelectedWordUncapped(h, m, rend, txt, pos) ==
    LET cleared == ManagerRemove(h, m, "occurrences", rend)
        word == WordUnderCursor(txt, pos)
        results == GetFindIndexResults(txt, pos, word, FALSE, TRUE).matches
    IN  IF Get(cleared.heap, m, "find") # <<>> \/ word = <<>>
        THEN [heap |-> cleared.heap, manager |-> m, rendered |-> cleared.rendered]
        ELSE AddNewList(cleared.heap, m, "occurrences", SelectionsOf(results))

\* NEditor.highlight_selected_word on heap h, dictionary m and last push rend.
HighlightSelectedWordOn(h, m, rend, txt, pos) ==
    LET cleared == ManagerRemove(h, m, "occurrences", rend)
        word == WordUnderCursor(txt, pos)
        results == GetFindIndexResults(txt, pos, word, FALSE, TRUE).matches
    IN  IF Get(cleared.heap, m, "find") # <<>> \/ word = <<>>
        THEN [heap |-> cleared.heap, manager |-> m, rendered |-> cleared.rendered]
        ELSE AddNewList(cleared.heap, m, "occurrences",
                        SelectionsOf(Take(results, MaxOccurrences)))

\* NEditor.highlight_found_results: what it leaves in the manager and returns.
HighlightFoundResultsOn(h, m, rend, txt, pos, expr, cs, wo, highlight) ==
    LET found == GetFindIndexResults(txt, pos, expr, cs, wo)
        after == IF highlight
                 THEN AddNewList(h, m, "find", SelectionsOf(found.matches))
                 ELSE [heap |-> h, manager |-> m, rendered |-> rend]
    IN  [heap |-> after.heap, manager |-> after.manager, rendered |-> after.rendered,
         index |-> found.index, count |-> Len(found.matches)]

DocTexts == SeqsUpTo(FindChars, MaxDocLen)

FindExprs == SeqsUpTo(FindChars, MaxFindLen)

InitHighlight ==
    /\ InitSel
    /\ text \in DocTexts
    /\ position = 0
    /\ anchor = 0
    /\ card = <<"#">>
    /\ InitTimers
    /\ lastOp = NoOp

\* _on_cursor_position_changed: the cursor has moved; the debounce timer is
\* stopped and started again.
CursorMove(p) ==
    /\ p # position
    /\ position' = p
    /\ anchor' = p
    /\ wordTimer' = TRUE
    /\ lastOp' = Op("cursor_move", "original", "*")
    /\ UNCHANGED <<selVars, text, card, runTimers>>

\* The debounce timer fires: highlight_selected_word.
HighlightSelectedWord ==
    /\ wordTimer
    /\ wordTimer' = FALSE
    /\ \E res \in {HighlightSelectedWordOn(heap, managers["original"],
                                            rendered["original"], text, position)} :
       \E new \in {Compact(res.heap, [managers EXCEPT !["original"] = res.manager])} :
            /\ managers' = new.managers
            /\ heap' = new.heap
            /\ rendered' = [rendered EXCEPT !["original"] = res.rendered]
    /\ lastOp' = Op("highlight_selected_word", "original", "occurrences")
    /\ UNCHANGED <<docVars, runTimers>>

\* The find widget asks for the results of expr to be highlighted.
HighlightFoundResults(expr, cs, wo, highlight) ==
    /\ \E res \in {HighlightFoundResultsOn(heap, managers["original"], rendered["original"],
                                            text, position, expr, cs, wo, highlight)} :
       \E new \in {Compact(res.heap, [managers EXCEPT !["original"] = res.manager])} :
            /\ managers' = new.managers
            /\ heap' = new.heap
            /\ rendered' = [rendered EXCEPT !["original"] = res.rendered]
            /\ lastOp' = [op |-> "highlight_found_results", expr |-> expr,
                          cs |-> cs, wo |-> wo, highlight |-> highlight,
                          index |-> res.index, count |-> res.count]
    /\ UNCHANGED <<docVars, timerVars>>

\* NEditor.reset_selections: remove("find").
ResetSelections ==
    /\ \E res \in {ManagerRemove(heap, managers["original"], "find", rendered["original"])} :
            /\ heap' = res.heap
            /\ rendered' = [rendered EXCEPT !["original"] = res.rendered]
    /\ lastOp' = Op("reset_selections", "original", "find")
    /\ UNCHANGED <<managers, docVars, timerVars>>

NextHighlight ==
    \/ \E p \in 0..Len(text) : CursorMove(p)
    \/ HighlightSelectedWord
    \/ \E expr \in FindExprs, cs \in BOOLEAN, wo \in BOOLEAN, highlight \in BOOLEAN :
          HighlightFoundResults(expr, cs, wo, highlight)
    \/ ResetSelections

SpecHighlight == InitHighlight /\ [][NextHighlight]_vars

\* Documents of one-letter words: n words "a" or "A" with a "." between them.
WordTexts(n) ==
    {t \in [1..(2 * n - 1) -> FindChars] :
        \A i \in DOMAIN t : IF i % 2 = 1 THEN t[i] \in WordChars ELSE t[i] \notin WordChars}

\* The word the find widget asks for on these documents.
WordExprs == {<<"a">>}

InitOccurrences ==
    /\ InitSel
    /\ text \in UNION {WordTexts(n) : n \in 1..MaxWords}
    /\ position = 0
    /\ anchor = 0
    /\ card = <<"#">>
    /\ InitTimers
    /\ lastOp = NoOp

NextOccurrences ==
    \/ \E p \in 0..Len(text) : CursorMove(p)
    \/ HighlightSelectedWord
    \/ \E expr \in WordExprs, cs \in BOOLEAN, wo \in BOOLEAN, highlight \in BOOLEAN :
          HighlightFoundResults(expr, cs, wo, highlight)
    \/ ResetSelections

SpecOccurrences == InitOccurrences /\ [][NextOccurrences]_vars

----------------------------------------------------------------------------
(* The document as blocks (lines) *)

Whitespace == {" ", "\t"}

\* block.position() of the block that holds offset pos.
RECURSIVE BlockStart(_, _)
BlockStart(txt, pos) ==
    IF pos = 0 \/ txt[pos] = "\n" THEN pos ELSE BlockStart(txt, pos - 1)

\* The offset of the end of the block that holds offset pos.
RECURSIVE BlockEnd(_, _)
BlockEnd(txt, pos) ==
    IF pos = Len(txt) \/ txt[pos + 1] = "\n" THEN pos ELSE BlockEnd(txt, pos + 1)

\* cursor.block().text()
BlockText(txt, pos) == SubSeq(txt, BlockStart(txt, pos) + 1, BlockEnd(txt, pos))

\* cursor.positionInBlock()
PositionInBlock(txt, pos) == pos - BlockStart(txt, pos)

\* len(s) - len(s.lstrip())
RECURSIVE LeadingSpace(_)
LeadingSpace(s) ==
    IF s # <<>> /\ Head(s) \in Whitespace THEN 1 + LeadingSpace(Tail(s)) ELSE 0

\* s.lstrip()
LStrip(s) == SubSeq(s, LeadingSpace(s) + 1, Len(s))

\* s.startswith(prefix), s.endswith(suffix)
StartsWith(s, prefix) ==
    Len(prefix) <= Len(s) /\ SubSeq(s, 1, Len(prefix)) = prefix

EndsWith(s, suffix) ==
    Len(suffix) <= Len(s) /\ SubSeq(s, Len(s) - Len(suffix) + 1, Len(s)) = suffix

\* The text without the characters at offsets from..to-1 (removeSelectedText).
RemoveRange(txt, from, to) == SubSeq(txt, 1, from) \o SubSeq(txt, to + 1, Len(txt))

\* The text with s inserted at offset p (insertText).
InsertAt(txt, p, s) == SubSeq(txt, 1, p) \o s \o SubSeq(txt, p + 1, Len(txt))

Spaces(n) == [i \in 1..n |-> " "]

----------------------------------------------------------------------------
(* Smart backspace and the Home key *)

\* self._indenter.text(): the indent unit, width spaces.
IndentText(width) == Spaces(width)

\* BaseEditor.text_before_cursor: the text of the cursor's block up to the cursor.
TextBeforeCursor(txt, pos) == SubSeq(txt, BlockStart(txt, pos) + 1, pos)

\* BaseEditor.line_indent of the cursor's line: the width of its leading whitespace.
LineIndent(txt, pos) == LeadingSpace(BlockText(txt, pos))

\* __smart_backspace with the bug of leaving out the full-unit case: a
\* remainder of 0 removes nothing.
SmartBackspaceNoFullUnit(txt, pos, anc, width) ==
    LET before == TextBeforeCursor(txt, pos)
    IN  IF /\ EndsWith(before, IndentText(width))
           /\ LeadingSpace(BlockText(txt, pos)) = PositionInBlock(txt, pos)
           /\ anc = pos
        THEN [accepted |-> TRUE,
              text |-> RemoveRange(txt, pos - (Len(before) % width), pos),
              position |-> pos - (Len(before) % width)]
        ELSE [accepted |-> FALSE, text |-> txt, position |-> pos]

\* NEditor.__smart_backspace: whether it took the key, and the text and cursor after.
SmartBackspace(txt, pos, anc, width) ==
    LET before == TextBeforeCursor(txt, pos)
        indentation == IndentText(width)
        space_at_start_len == LeadingSpace(BlockText(txt, pos))
        column_number == PositionInBlock(txt, pos)
        rest == Len(before) % Len(indentation)
        to_remove == IF rest = 0 THEN Len(indentation) ELSE rest
    IN  IF /\ EndsWith(before, indentation)
           /\ space_at_start_len = column_number
           /\ anc = pos
        THEN [accepted |-> TRUE,
              text |-> RemoveRange(txt, pos - to_remove, pos),
              position |-> pos - to_remove]
        ELSE [accepted |-> FALSE, text |-> txt, position |-> pos]

\* The text widget's own backspace: the selection goes, or else the character
\* before the cursor.
DefaultBackspace(txt, pos, anc) ==
    IF anc # pos
    THEN [text |-> RemoveRange(txt, Min(anc, pos), IF anc > pos THEN anc ELSE pos),
          position |-> Min(anc, pos)]
    ELSE IF pos > 0
    THEN [text |-> RemoveRange(txt, pos - 1, pos), position |-> pos - 1]
    ELSE [text |-> txt, position |-> pos]

\* __manage_key_home: the cursor after the key. A move with MoveAnchor takes
\* the anchor along, one with KeepAnchor (shift) leaves it; when no branch is
\* taken the cursor is set back as it was.
ManageKeyHome(txt, pos, anc, shift) ==
    LET indent == LineIndent(txt, pos)
        start == BlockStart(txt, pos)
        Moved(to) == [position |-> to, anchor |-> IF shift THEN anc ELSE to]
    IN  IF PositionInBlock(txt, pos) = indent THEN Moved(start)
        ELSE IF pos = start THEN Moved(start + indent)
        ELSE IF PositionInBlock(txt, pos) > indent THEN Moved(start + indent)
        ELSE [position |-> pos, anchor |-> anc]

\* The lines the keys are pressed on: leading whitespace, then nothing or a word.
KeyLines ==
    {lead \o Spaces(n) \o body :
        lead \in {<<>>, <<"\t">>}, n \in 0..MaxIndent, body \in {<<>>, <<"x">>}}

\* A line alone, or with a line before it or after it.
KeyDocs ==
    UNION {{l, <<"x", "\n">> \o l, l \o <<"\n", "x">>} : l \in KeyLines}

\* The indent widths the indenter may be set to.
IndentWidths == {2, 4}

InitKeys ==
    /\ InitSel
    /\ InitTimers
    /\ text \in KeyDocs
    /\ position \in 0..Len(text)
    /\ anchor \in {position, BlockStart(text, position), BlockEnd(text, position)}
    /\ card = <<"#">>
    /\ lastOp = NoOp

\* keyPressEvent with Qt.Key_Backspace.
KeyBackspace(width) ==
    \E smart \in {SmartBackspace(text, position, anchor, width)} :
    \E res \in {IF smart.accepted THEN smart
                 ELSE DefaultBackspace(text, position, anchor)} :
        /\ text' = res.text
        /\ position' = res.position
        /\ anchor' = res.position
        /\ lastOp' = [op |-> "backspace", accepted |-> smart.accepted, width |-> width]
        /\ UNCHANGED <<selVars, timerVars, card>>

\* keyPressEvent with Qt.Key_Home, with or without the shift modifier.
KeyHome(shift) ==
    /\ \E res \in {ManageKeyHome(text, position, anchor, shift)} :
            /\ position' = res.position
            /\ anchor' = res.anchor
    /\ lastOp' = [op |-> "home", accepted |-> TRUE, width |-> 0]
    /\ UNCHANGED <<selVars, timerVars, text, card>>

NextKeys ==
    \/ \E width \in IndentWidths : KeyBackspace(width)
    \/ \E shift \in BOOLEAN : KeyHome(shift)

SpecKeys == InitKeys /\ [][NextKeys]_vars

----------------------------------------------------------------------------
(* The comment toggle: NEditor.comment_or_uncomment *)

Max(a, b) == IF a >= b THEN a ELSE b

\* sys.maxsize, the start value of min_indent. It stands for a value above
\* every column of every document; the largest integer of the model is used.
SysMaxSize == 2147483647

\* s.rstrip(), s.strip()
RECURSIVE RStrip(_)
RStrip(s) ==
    IF s # <<>> /\ s[Len(s)] \in Whitespace THEN RStrip(SubSeq(s, 1, Len(s) - 1)) ELSE s

Strip(s) == LStrip(RStrip(s))

\* BaseEditor.has_selection: the cursor holds a selection.
HasSelection(pos, anc) == anc # pos

\* The start offsets of the blocks from the one at offset start to the one
\* at offset last, in document order (block.next() until the last is done).
RECURSIVE BlockStartsFrom(_, _, _)
BlockStartsFrom(txt, start, last) ==
    IF start >= last THEN <<start>>
    ELSE <<start>> \o BlockStartsFrom(txt, BlockEnd(txt, start) + 1, last)

\* The blocks from doc.findBlock(cursor.selectionStart()) to
\* doc.findBlock(cursor.selectionEnd()), that one included.
SelectedBlocks(txt, pos, anc) ==
    BlockStartsFrom(txt, BlockStart(txt, Min(anc, pos)), BlockStart(txt, Max(anc, pos)))

\* The locals of the handler before its first loop.
ScanStart(crd) ==
    [min_indent |-> SysMaxSize, comment |-> TRUE, card_lenght |-> Len(crd),
     lines_commented |-> 0, lines_without_comment |-> 0]

\* One turn of the first loop, on a block with the given text.
ScanBlock(acc, line, crd) ==
    LET indent == LeadingSpace(line)
        block_text == LStrip(line)
        seen == [acc EXCEPT !.min_indent = Min(indent, @)]
    IN  IF block_text = <<>> THEN acc
        ELSE IF StartsWith(block_text, crd)
        THEN [seen EXCEPT !.lines_commented = @ + 1, !.comment = FALSE]
        ELSE IF StartsWith(block_text, Strip(crd))
        THEN [seen EXCEPT !.lines_commented = @ + 1, !.comment = FALSE,
                          !.card_lenght = @ - 1]
        ELSE [seen EXCEPT !.lines_without_comment = @ + 1, !.comment = TRUE]

\* The first loop: the locals after every block of the range has been looked at.
RECURSIVE ScanBlocks(_, _, _, _)
ScanBlocks(txt, blocks, crd, acc) ==
    IF blocks = <<>> THEN acc
    ELSE ScanBlocks(txt, Tail(blocks), crd,
                    ScanBlock(acc, BlockText(txt, Head(blocks)), crd))

\* The decision with the bug of leaving out the override for a mixed range:
\* the last non-blank line alone decides.
CommentModeLastLine(acc) == acc.comment

\* The value of comment after the first loop and the override that follows it.
CommentMode(acc) ==
    LET total_lines == acc.lines_commented + acc.lines_without_comment
    IN  IF acc.lines_commented > 0 /\ acc.lines_commented # total_lines
        THEN TRUE
        ELSE acc.comment

\* Where an offset of another cursor on the document is after s characters are
\* inserted at offset p, and after the characters at offsets p..q-1 are removed.
AdjustInsert(off, p, n) == IF off >= p THEN off + n ELSE off

AdjustRemove(off, p, q) ==
    IF off >= q THEN off - (q - p) ELSE IF off > p THEN p ELSE off

\* The second loop with the bug of editing each line at its own indent column
\* in place of the shared minimum.
ApplyBlockAtOwnIndent(st, start, comment, min_indent, card_lenght, crd) ==
    LET p == start + LeadingSpace(BlockText(st.text, start))
        q == p + Min(Max(card_lenght, 0), Len(st.text) - p)
    IN  IF LStrip(BlockText(st.text, start)) = <<>>
        THEN [st EXCEPT !.cursor = p]
        ELSE IF comment
        THEN [text |-> InsertAt(st.text, p, crd),
              cursor |-> p + Len(crd),
              position |-> AdjustInsert(st.position, p, Len(crd)),
              anchor |-> AdjustInsert(st.anchor, p, Len(crd))]
        ELSE [text |-> RemoveRange(st.text, p, q),
              cursor |-> p,
              position |-> AdjustRemove(st.position, p, q),
              anchor |-> AdjustRemove(st.anchor, p, q)]

\* One turn of the second loop on the block that starts at offset start. st
\* holds the text, the handler's cursor, and the widget's own cursor
\* (position, anchor), which follows the edits. Movements to the right stop
\* at the end of the document.
ApplyBlock(st, start, comment, min_indent, card_lenght, crd) ==
    LET p == start + Min(min_indent, Len(st.text) - start)
        q == p + Min(Max(card_lenght, 0), Len(st.text) - p)
    IN  IF LStrip(BlockText(st.text, start)) = <<>>
        THEN [st EXCEPT !.cursor = p]
        ELSE IF comment
        THEN [text |-> InsertAt(st.text, p, crd),
              cursor |-> p + Len(crd),
              position |-> AdjustInsert(st.position, p, Len(crd)),
              anchor |-> AdjustInsert(st.anchor, p, Len(crd))]
        ELSE [text |-> RemoveRange(st.text, p, q),
              cursor |-> p,
              position |-> AdjustRemove(st.position, p, q),
              anchor |-> AdjustRemove(st.anchor, p, q)]

\* The second loop: n blocks from the one that starts at offset start.
RECURSIVE ApplyBlocks(_, _, _, _, _, _, _)
ApplyBlocks(st, start, n, comment, min_indent, card_lenght, crd) ==
    IF n = 0 \/ start > Len(st.text) THEN st
    ELSE LET done == ApplyBlock(st, start, comment, min_indent, card_lenght, crd)
         IN  ApplyBlocks(done, BlockEnd(done.text, start) + 1, n - 1,
                         comment, min_indent, card_lenght, crd)

\* cursor.movePosition(QTextCursor.Down): the same column of the next line, or
\* its end when it is shorter. On the last line the toolkit either leaves
\* the cursor or takes it to the end of the line (toEnd).
MoveDown(txt, pos, toEnd) ==
    LET end == BlockEnd(txt, pos)
    IN  IF end = Len(txt) THEN (IF toEnd THEN end ELSE pos)
        ELSE Min(end + 1 + PositionInBlock(txt, pos), BlockEnd(txt, end + 1))

\* comment_or_uncomment: the text and the widget's cursor after the handler,
\* with the mode it chose. When every line of the range is blank min_indent
\* is still sys.maxsize at the second loop, and the binding either refuses the
\* value (raises: the handler ends there, nothing is changed) or the cursor
\* movement stops at the end of the document.
CommentOrUncomment(txt, pos, anc, crd, raises, toEnd) ==
    LET blocks == SelectedBlocks(txt, pos, anc)
        acc == ScanBlocks(txt, blocks, crd, ScanStart(crd))
        comment == CommentMode(acc)
        done == ApplyBlocks([text |-> txt, cursor |-> pos, position |-> pos, anchor |-> anc],
                            blocks[1], Len(blocks), comment,
                            acc.min_indent, acc.card_lenght, crd)
        down == MoveDown(done.text, done.cursor, toEnd)
        out == [comment |-> comment, min_indent |-> acc.min_indent,
                card_lenght |-> acc.card_lenght]
    IN  IF acc.min_indent = SysMaxSize /\ raises
        THEN [text |-> txt, position |-> pos, anchor |-> anc] @@ out
        ELSE IF HasSelection(pos, anc)
        THEN [text |-> done.text, position |-> done.position, anchor |-> done.anchor] @@ out
        ELSE [text |-> done.text, position |-> down, anchor |-> down] @@ out

\* The lines the toggle is used on: blank, plain and commented ones, at
\* column 0 and indented, the marker followed by a space or not.
CommentLines ==
    {<<>>, <<" ">>, <<"x">>, <<" ", "x">>, <<"#", "x">>, <<" ", "#", "x">>,
     <<"#", " ", "x">>}

\* The documents of n lines.
RECURSIVE CommentDocs(_)
CommentDocs(n) ==
    IF n = 1 THEN CommentLines
    ELSE {l \o <<"\n">> \o d : l \in CommentLines, d \in CommentDocs(n - 1)}

\* The markers of the language: with and without a trailing space.
Cards == {<<"#">>, <<"#", " ">>}

\* The cursor is on a line, or a selection runs from the start of a line to
\* the end of that line or of a later one.
InitComment ==
    /\ InitSel
    /\ InitTimers
    /\ text \in UNION {CommentDocs(n) : n \in 1..MaxLines}
    /\ anchor \in {p \in 0..Len(text) : BlockStart(text, p) = p}
    /\ position \in {p \in anchor..Len(text) : BlockEnd(text, p) = p \/ p = anchor}
    /\ card \in Cards
    /\ lastOp = [op |-> "none", comment |-> TRUE, calls |-> 0,
                 min_indent |-> 0, card_lenght |-> 0,
                 prev |-> <<>>, first |-> 0, lines |-> 0]

\* The comment shortcut; the handler is run at most MaxToggles times.
CommentToggle(raises, toEnd) ==
    /\ lastOp.calls < MaxToggles
    /\ \E res \in {CommentOrUncomment(text, position, anchor, card, raises, toEnd)} :
        /\ text' = res.text
        /\ position' = res.position
        /\ anchor' = res.anchor
        /\ lastOp' = [op |-> "comment_or_uncomment", comment |-> res.comment,
                      calls |-> lastOp.calls + 1,
                      min_indent |-> res.min_indent,
                      card_lenght |-> res.card_lenght,
                      prev |-> text,
                      first |-> SelectedBlocks(text, position, anchor)[1],
                      lines |-> Len(SelectedBlocks(text, position, anchor))]
    /\ UNCHANGED <<selVars, timerVars, card>>

NextComment ==
    \E raises \in BOOLEAN, toEnd \in BOOLEAN : CommentToggle(raises, toEnd)

SpecComment == InitComment /\ [][NextComment]_vars

----------------------------------------------------------------------------
(* The run cursor: NEditor.show_run_cursor and its one-shot removal timer *)

\* The documents a piece of code is run from: one line, or two.
RunDocs == {<<"a">>, <<"a", "a">>, <<"a", "\n", "a", "a">>}

InitRunCursor ==
    /\ InitSel
    /\ InitTimers
    /\ text \in RunDocs
    /\ position \in 0..Len(text)
    /\ anchor \in 0..Len(text)
    /\ card = <<"#">>
    /\ lastOp = NoOp

\* show_run_cursor: the selection, or the cursor's line, is added to
\* "run_cursor" as one ExtraSelection; the cursor loses its selection (without
\* one it has been taken to the end of its line) and is set on the widget,
\* which starts the debounce timer when the position has changed; a one-shot
\* timer that removes "run_cursor" is started.
ShowRunCursor ==
    /\ runTimers.started < MaxRuns
    /\ LET start_pos == IF HasSelection(position, anchor) THEN Min(anchor, position)
                        ELSE BlockStart(text, position)
           end_pos == IF HasSelection(position, anchor) THEN Max(anchor, position)
                      ELSE BlockEnd(text, position)
           to == IF HasSelection(position, anchor) THEN position ELSE end_pos
           selection == MkSelection(start_pos, end_pos, 0)
       IN  /\ \E res \in {ManagerAdd(heap, managers["original"], "run_cursor",
                                      [isList |-> FALSE, ref |-> 0, sel |-> selection])} :
              \E new \in {Compact(res.heap, [managers EXCEPT !["original"] = res.manager])} :
                   /\ managers' = new.managers
                   /\ heap' = new.heap
                   /\ rendered' = [rendered EXCEPT !["original"] = res.rendered]
           /\ position' = to
           /\ anchor' = to
           /\ wordTimer' = (wordTimer \/ to # position)
    /\ runTimers' = [pending |-> Append(runTimers.pending, runTimers.started + 1),
                     started |-> runTimers.started + 1]
    /\ lastOp' = [op |-> "show_run_cursor", id |-> runTimers.started + 1]
    /\ UNCHANGED <<text, card>>

\* The oldest pending one-shot timer fires: remove("run_cursor").
RunCursorTimeout ==
    /\ runTimers.pending # <<>>
    /\ \E res \in {ManagerRemove(heap, managers["original"], "run_cursor",
                                  rendered["original"])} :
            /\ heap' = res.heap
            /\ rendered' = [rendered EXCEPT !["original"] = res.rendered]
    /\ runTimers' = [runTimers EXCEPT !.pending = Tail(@)]
    /\ lastOp' = [op |-> "run_cursor_timeout", id |-> Head(runTimers.pending)]
    /\ UNCHANGED <<managers, docVars, wordTimer>>

NextRunCursor ==
    \/ ShowRunCursor
    \/ RunCursorTimeout
    \/ HighlightSelectedWord

SpecRunCursor == InitRunCursor /\ [][NextRunCursor]_vars

----------------------------------------------------------------------------
(* What a category of an editor holds, now and after the step *)

Count(seq, x) == Cardinality({i \in DOMAIN seq : seq[i] = x})

Held(e, k) == Get(heap, managers[e], k)

HeldNext(e, k) == Get(heap', managers'[e], k)

----------------------------------------------------------------------------
(* Properties of the find engine *)

\* The expression q stands in t at offset i.
LiteralAt(t, q, i) ==
    /\ i + Len(q) <= Len(t)
    /\ \A j \in 1..Len(q) : t[i + j] = q[j]

Occurrences(t, q) == {i \in 0..Len(t) : LiteralAt(t, q, i)}

Ascending(ms) == \A j \in 1..(Len(ms) - 1) : ms[j][1] < ms[j + 1][1]

\* C4 as claimed: the matches of a case-sensitive search without the
\* whole-word flag are the spans of all literal occurrences of the expression
\* in the text, in ascending order.
C4_AllOccurrences ==
    (lastOp.op = "find" /\ lastOp.cs /\ ~lastOp.wo) =>
        /\ Range(lastOp.matches) =
               {<<i, i + Len(lastOp.expr)>> : i \in Occurrences(text, lastOp.expr)}
        /\ Ascending(lastOp.matches)

\* C4 amended: the matches of a case-sensitive search without the whole-word
\* flag are spans of literal occurrences of the expression, in ascending order
\* and not overlapping, and the only occurrences left out are those that start
\* inside a returned match (the scan goes on at the end of each match).
C4_NonOverlappingOccurrences ==
    (lastOp.op = "find" /\ lastOp.cs /\ ~lastOp.wo) =>
        LET ms == lastOp.matches
            q == lastOp.expr
        IN  /\ \A j \in DOMAIN ms :
                  ms[j][1] \in Occurrences(text, q) /\ ms[j][2] = ms[j][1] + Len(q)
            /\ Ascending(ms)
            /\ \A j \in 1..(Len(ms) - 1) : ms[j][2] <= ms[j + 1][1]
            /\ \A i \in Occurrences(text, q) :
                  \/ \E j \in DOMAIN ms : ms[j][1] = i
                  \/ \E j \in DOMAIN ms : ms[j][1] < i /\ i < ms[j][2]

\* C4 witness: a case-sensitive search for ".." in "a..." has returned the
\* occurrence at offset 1 and left out the one at offset 2, which overlaps it.
C4_Witness ==
    /\ lastOp.op = "find" /\ lastOp.cs /\ ~lastOp.wo
    /\ text = <<"a", ".", ".", ".">>
    /\ lastOp.expr = <<".", ".">>
    /\ lastOp.matches = <<<<1, 3>>>>

\* C5: with the whole-word flag (case-sensitive) the matches are exactly the
\* literal occurrences of the expression that have a word boundary on both
\* sides.
C5_WholeWordOccurrences ==
    (lastOp.op = "find" /\ lastOp.cs /\ lastOp.wo) =>
        Range(lastOp.matches) =
            {<<i, i + Len(lastOp.expr)>> :
                i \in {o \in Occurrences(text, lastOp.expr) :
                          /\ WordBoundary(text, o)
                          /\ WordBoundary(text, o + Len(lastOp.expr))}}

\* C6: current_index is the number of returned matches that start before the
\* cursor (stated for the searches of a non-empty expression; C7 is about the
\* empty one).
C6_IndexCountsMatchesBeforeCursor ==
    (lastOp.op = "find" /\ lastOp.expr # <<>>) =>
        lastOp.index =
            Cardinality({j \in DOMAIN lastOp.matches : lastOp.matches[j][1] < position})

\* C7: a request to highlight the empty expression reports no match and leaves
\* no selection in "find", and highlight_selected_word with no word under the
\* cursor leaves "occurrences" empty.
C7_EmptyQueryFindsNothing ==
    /\ (lastOp.op = "highlight_found_results" /\ lastOp.expr = <<>>) =>
            /\ lastOp.count = 0
            /\ lastOp.highlight => Held("original", "find") = <<>>
    /\ (lastOp.op = "highlight_selected_word" /\ WordUnderCursor(text, position) = <<>>) =>
            Held("original", "occurrences") = <<>>

\* The words of the text that are expr, with or without regard to case.
WordsEqualTo(txt, expr, cs) ==
    {i \in DOMAIN txt : IF cs THEN <<txt[i]>> = expr ELSE Lower(<<txt[i]>>) = Lower(expr)}

\* C13: "occurrences" never holds more selections than the cap of
\* highlight_selected_word, however many occurrences the word has; the count
\* highlight_found_results returns is the number of words of the text that
\* match, above the cap too, and with highlight every one of them is in "find".
C13_OccurrencesCappedCountNot ==
    /\ Len(Held("original", "occurrences")) <= MaxOccurrences
    /\ lastOp.op = "highlight_found_results" =>
            /\ lastOp.count = Cardinality(WordsEqualTo(text, lastOp.expr, lastOp.cs))
            /\ lastOp.highlight => Len(Held("original", "find")) = lastOp.count

\* The word under the cursor has more occurrences than the cap: "occurrences"
\* is filled up to the cap and a find without overlay reports them all.
C13_Witness ==
    /\ Len(Held("original", "occurrences")) = MaxOccurrences
    /\ lastOp.op = "highlight_found_results"
    /\ ~lastOp.highlight
    /\ lastOp.count > MaxOccurrences

\* C16: the index and the number of matches that find returns, and that
\* highlight_found_results hands on as (index, count), satisfy
\* 0 <= index <= count for every text, query, flags and cursor offset.
C16_IndexWithinCount ==
    lastOp.op = "find" => (0 <= lastOp.index /\ lastOp.index <= Len(lastOp.matches))

\* C14: in every state reached by cursor moves, firings of the debounce
\* timer, find requests and reset_selections, "occurrences" is empty whenever
\* "find" holds a selection.
C14_NoDoubleOverlays ==
    Held("original", "find") # <<>> => Held("original", "occurrences") = <<>>

----------------------------------------------------------------------------
(* Properties of smart backspace and the Home key *)

\* The cursor has no selection, stands at the first non-whitespace column of its
\* line, and the text before it on the line ends with the indent unit.
AtIndentEdge(width) ==
    /\ anchor = position
    /\ PositionInBlock(text, position) = LeadingSpace(BlockText(text, position))
    /\ EndsWith(TextBeforeCursor(text, position), Spaces(width))

\* The number of characters one smart backspace removes at column col.
UnitToRemove(col, width) == IF col % width = 0 THEN width ELSE col % width

\* C8: at the indent edge one backspace removes exactly r characters right
\* before the cursor, r = column mod w, or w when that is 0, and nothing else
\* of the document changes; leading whitespace of n >= w spaces becomes the
\* largest multiple of w strictly below n.
C8_SmartBackspaceRemovesOneUnit ==
    [][(lastOp'.op = "backspace" /\ AtIndentEdge(lastOp'.width)) =>
        LET w == lastOp'.width
            col == PositionInBlock(text, position)
            r == UnitToRemove(col, w)
        IN  /\ lastOp'.accepted
            /\ Len(text') = Len(text) - r
            /\ position' = position - r
            /\ \A i \in 1..(position - r) : text'[i] = text[i]
            /\ \A i \in (position + 1)..Len(text) : text'[i - r] = text[i]
            /\ TextBeforeCursor(text, position) = Spaces(col) =>
                  /\ LeadingSpace(BlockText(text', position')) = w * ((col - 1) \div w)
                  /\ w * ((col - 1) \div w) < col
      ]_vars

\* C8 witness: six spaces before "x" and a four-space unit; the backspace at
\* column 6 was taken by the smart backspace and has left four spaces.
C8_Witness ==
    /\ lastOp.op = "backspace" /\ lastOp.accepted /\ lastOp.width = 4
    /\ text = Spaces(4) \o <<"x", "\n", "x">>
    /\ position = 4 /\ anchor = 4

\* C9: Home never changes the text and moves the cursor to column 0 when it
\* stands at the first non-whitespace column k of its line, and to column k
\* from every other column of the line.
C9_HomeTogglesFromAnyColumn ==
    [][lastOp'.op = "home" =>
        LET k == LineIndent(text, position)
            start == BlockStart(text, position)
        IN  /\ text' = text
            /\ position' = IF PositionInBlock(text, position) = k
                            THEN start ELSE start + k
      ]_vars

----------------------------------------------------------------------------
(* Properties of the comment toggle *)

IsBlank(line) == LStrip(line) = <<>>

\* The line starts, after its leading whitespace, with the marker or with
\* the marker without its trailing space.
IsCommented(line, crd) ==
    \/ StartsWith(LStrip(line), crd)
    \/ StartsWith(LStrip(line), Strip(crd))

\* The lines of a document, in order.
LinesOf(txt) ==
    LET starts == BlockStartsFrom(txt, 0, BlockStart(txt, Len(txt)))
    IN  [i \in DOMAIN starts |-> BlockText(txt, starts[i])]

\* The numbers of the lines of the block range of the cursor.
RangeLines(txt, pos, anc) ==
    LET first == Count(SubSeq(txt, 1, Min(anc, pos)), "\n") + 1
        last == Count(SubSeq(txt, 1, Max(anc, pos)), "\n") + 1
    IN  first..last

\* C10: over the non-blank lines of the block range the toggle uncomments
\* (inserts nothing, no line grows) exactly when every one of them is commented,
\* and comments (inserts the marker in every one of them) when none or only
\* some are, whatever the order of the lines, the majority and the kind of
\* the last line; blank lines never count and are never edited.
C10_ModeDecision ==
    [][lastOp'.op = "comment_or_uncomment" =>
        LET before == LinesOf(text)
            after == LinesOf(text')
            range == RangeLines(text, position, anchor)
            nonblank == {i \in range : ~IsBlank(before[i])}
            commented == {i \in nonblank : IsCommented(before[i], card)}
        IN  /\ Len(after) = Len(before)
            /\ \A i \in DOMAIN before : IsBlank(before[i]) => after[i] = before[i]
            /\ nonblank # {} =>
                /\ lastOp'.comment = (commented # nonblank)
                /\ commented # nonblank =>
                    \A i \in nonblank : Len(after[i]) = Len(before[i]) + Len(card)
                /\ commented = nonblank =>
                    \A i \in nonblank : Len(after[i]) <= Len(before[i])
    ]_vars

\* A mixed range whose last line is commented and whose commented lines are
\* the majority has been commented: every line got the marker.
C10_Witness ==
    /\ lastOp.op = "comment_or_uncomment"
    /\ lastOp.comment
    /\ lastOp.calls = 1
    /\ card = <<"#">>
    /\ text = <<"#", "#", "x", "\n", "#", "x", "\n", "#", "#", "x">>

\* The least indent of the non-blank lines among the given ones.
MinIndentOf(lines, among) ==
    CHOOSE m \in {LeadingSpace(lines[i]) : i \in among} :
        \A i \in among : m <= LeadingSpace(lines[i])

\* The toggle just run was over a range with a non-blank line and without a
\* commented one: lastOp.prev is the text it was run on.
LastToggleWasOnPlainRange ==
    /\ lastOp.op = "comment_or_uncomment"
    /\ LET before == LinesOf(lastOp.prev)
           range == {i \in DOMAIN before :
                        /\ i > Count(SubSeq(lastOp.prev, 1, lastOp.first), "\n")
                        /\ i <= Count(SubSeq(lastOp.prev, 1, lastOp.first), "\n") + lastOp.lines}
       IN  /\ \E i \in range : ~IsBlank(before[i])
           /\ \A i \in range : ~IsBlank(before[i]) => ~IsCommented(before[i], card)

\* The cursor's block range is the one the last toggle was run over.
SameRangeAsLastToggle ==
    LET blocks == SelectedBlocks(text, position, anchor)
    IN  blocks[1] = lastOp.first /\ Len(blocks) = lastOp.lines

\* C11: a toggle over a range without a commented non-blank line puts the
\* marker at the least indent column of the range's non-blank lines into
\* each of them and changes no other line; a second toggle over the same
\* range of lines gives back the text the first one was run on.
C11_CommentRoundTrip ==
    [][lastOp'.op = "comment_or_uncomment" =>
        LET before == LinesOf(text)
            after == LinesOf(text')
            range == RangeLines(text, position, anchor)
            nonblank == {i \in range : ~IsBlank(before[i])}
        IN  /\ (nonblank # {} /\ \A i \in nonblank : ~IsCommented(before[i], card)) =>
                /\ Len(after) = Len(before)
                /\ \A i \in DOMAIN before :
                      after[i] = IF i \in nonblank
                                 THEN InsertAt(before[i], MinIndentOf(before, nonblank), card)
                                 ELSE before[i]
            /\ (LastToggleWasOnPlainRange /\ SameRangeAsLastToggle) =>
                text' = lastOp.prev
    ]_vars

\* An indented line, an empty line and a line at column 0 were commented
\* under a selection and then uncommented again.
C11_Witness ==
    /\ lastOp.op = "comment_or_uncomment"
    /\ lastOp.calls = 2
    /\ ~lastOp.comment
    /\ card = <<"#", " ">>
    /\ lastOp.prev = <<"#", " ", " ", "x", "\n", "\n", "#", " ", "x">>
    /\ text = <<" ", "x", "\n", "\n", "x">>
    /\ anchor # position

\* The line without its n characters from column m on.
WithoutColumns(line, m, n) == RemoveRange(line, Min(m, Len(line)), Min(m + n, Len(line)))

\* C12: a toggle that uncomments removes from every non-blank line of the
\* range the same number of characters from the least indent column on: the
\* length of the marker, or one less when some line of the range starts with
\* the marker without its trailing space only, however many such lines there are.
C12_UncommentRemovesMarkerLength ==
    [][(lastOp'.op = "comment_or_uncomment" /\ ~lastOp'.comment) =>
        LET before == LinesOf(text)
            after == LinesOf(text')
            range == RangeLines(text, position, anchor)
            nonblank == {i \in range : ~IsBlank(before[i])}
            stripped == {i \in nonblank : ~StartsWith(LStrip(before[i]), card)}
            n == IF stripped = {} THEN Len(card) ELSE Len(card) - 1
        IN  /\ Len(after) = Len(before)
            /\ \A i \in nonblank :
                  after[i] = WithoutColumns(before[i], MinIndentOf(before, nonblank), n)
    ]_vars

\* C17: a toggle that uncomments removes from every non-blank line of the
\* range one marker (or marker without its trailing space) at the start of
\* the line's content and nothing else: the leading whitespace and the rest
\* of the line stay, also when the lines are indented differently, and every
\* other line is unchanged.
C17_UncommentRemovesOnlyMarkers ==
    [][(lastOp'.op = "comment_or_uncomment" /\ ~lastOp'.comment) =>
        LET before == LinesOf(text)
            after == LinesOf(text')
            range == RangeLines(text, position, anchor)
            nonblank == {i \in range : ~IsBlank(before[i])}
        IN  /\ Len(after) = Len(before)
            /\ \A i \in DOMAIN before :
                  IF i \in nonblank
                  THEN \E mk \in {card, Strip(card)} :
                          /\ StartsWith(LStrip(before[i]), mk)
                          /\ after[i] = WithoutColumns(before[i], LeadingSpace(before[i]), Len(mk))
                  ELSE after[i] = before[i]
    ]_vars

----------------------------------------------------------------------------
(* Properties of the run cursor *)

\* C15: a removal timer that fires after a later call of show_run_cursor
\* leaves the highlight of that call in "run_cursor" (it goes when its own
\* timer fires), and a timer that fires on an empty "run_cursor" changes
\* nothing.
C15_TimerSparesLaterHighlight ==
    [][lastOp'.op = "run_cursor_timeout" =>
        /\ lastOp'.id < runTimers.started =>
                HeldNext("original", "run_cursor") = Held("original", "run_cursor")
        /\ Held("original", "run_cursor") = <<>> =>
                /\ HeldNext("original", "run_cursor") = <<>>
                /\ rendered' = rendered
    ]_vars

----------------------------------------------------------------------------
(* Properties of the extra-selection manager *)

\* C1: add(c, S) makes S (a non-list argument as a one-element list) the
\* selections held for c, whatever c held before; what is pushed to the
\* rendering surface holds S for c and what every other category of the editor
\* held; no other category of any editor changes, and a remove of another
\* category of the editor leaves c as it was.
C1_AddReplacesCategory ==
    [][LET e == lastOp'.ed
           k == lastOp'.kind
       IN  /\ lastOp'.op = "add" =>
                /\ HeldNext(e, k) = lastOp'.items
                /\ \A e2 \in Editors, k2 \in Kinds :
                      (e2 # e \/ k2 # k) => HeldNext(e2, k2) = Held(e2, k2)
                /\ \A x \in Selections :
                      Count(rendered'[e], x) =
                          Count(lastOp'.items, x)
                          + Count(Held(e, CHOOSE k2 \in Kinds : k2 # k), x)
           /\ lastOp'.op = "remove" =>
                \A k2 \in Kinds : k2 # k => HeldNext(e, k2) = Held(e, k2)
      ]_vars

\* C1 witness: an add has replaced the non-empty "find" selections of the
\* original by a one-element list while "occurrences" holds another selection.
C1_Witness ==
    /\ lastOp.op = "add" /\ lastOp.replaced
    /\ Held("original", "find") = <<MkSelection(2, 3, 0)>>
    /\ Held("original", "occurrences") = <<MkSelection(1, 2, 1)>>
    /\ rendered["original"] = <<MkSelection(2, 3, 0), MkSelection(1, 2, 1)>>

\* C2: what was last pushed to an editor's rendering surface is the current
\* contents of its manager, flattened in insertion order and stably sorted by
\* order.
C2_RenderedIsCurrent ==
    \A e \in Editors : rendered[e] = SortByOrder(Flatten(heap, managers[e]))

\* C3: an add, remove or remove_all on one editor leaves the selections of every
\* category of the other editor unchanged, also after link().
C3_LinkIsOneTimeCopy ==
    [][lastOp'.op \in {"add", "remove", "remove_all"} =>
        \A e2 \in Editors \ {lastOp'.ed}, k2 \in Kinds :
            HeldNext(e2, k2) = Held(e2, k2)
      ]_vars

====
